---- MODULE Spec2Model ----
(***************************************************************************)
(* A model of the cryptopals crate (king-11/cryptopals): the repeating-key *)
(* XOR cipher, the Hamming-distance key-size estimator, the column         *)
(* transposer, the single-byte XOR breaker with its frequency table and    *)
(* scorer, the base64 codec, and the key recovery that                     *)
(* examples/set1_challenge6.rs builds from them.                           *)
(*                                                                         *)
(* The crate is a library of functions.  Each function is an operator,     *)
(* computed the way the Rust code computes it, and each family of          *)
(* functions has its own specification: its Init draws the input buffer    *)
(* from a bounded set and its actions call the function once, drawing the  *)
(* other arguments from small sets.                                        *)
(*                                                                         *)
(* Bytes and characters are numbers: a byte is 0..255, a character is its  *)
(* Unicode code point.  A byte buffer, a &str and a String are sequences.  *)
(***************************************************************************)
EXTENDS Integers, Sequences, FiniteSets, TLC

VARIABLES
    pc,     \* which call has returned: "ready" before any call
    bytes,  \* the byte buffer the call is made on
    args,   \* the other arguments of the call, a record
    ret     \* what the call returned, a record

vars == <<pc, bytes, args, ret>>

(***************************************************************************)
(* Bounds of the model.                                                    *)
(***************************************************************************)
MaxLen == 4          \* longest buffer of the XOR specification
MaxKeyLen == 3       \* longest repeating key
MaxHamLen == 3       \* longest buffer of the Hamming specification
MaxKsLen == 6        \* longest buffer of the key-size specification
MaxTopN == 3         \* largest keys_to_consider
MaxChunks == 3       \* largest chunks_to_consider
MaxKeySize == 4      \* largest max_key_size
MaxTrLen == 5        \* longest buffer of the transposer specification
MaxBlockSize == 6    \* largest block_size
MaxBrLen == 3        \* longest ciphertext of the breaker specification

Min(a, b) == IF a <= b THEN a ELSE b

Max(a, b) == IF a >= b THEN a ELSE b

Pow2(n) == 2 ^ n

\* All sequences over S of length 0..n.
SeqsUpTo(S, n) == UNION {[1..m -> S] : m \in 0..n}

(***************************************************************************)
(* u8 arithmetic.  The Rust operators ^, & and << on u8, bit by bit.       *)
(***************************************************************************)
U8Bits == 8

RECURSIVE XorBits(_, _, _)
XorBits(a, b, n) ==
    IF n = 0 THEN 0
    ELSE (((a % 2) + (b % 2)) % 2) + 2 * XorBits(a \div 2, b \div 2, n - 1)

RECURSIVE OrBits(_, _, _)
OrBits(a, b, n) ==
    IF n = 0 THEN 0
    ELSE Max(a % 2, b % 2) + 2 * OrBits(a \div 2, b \div 2, n - 1)

\* a | b on u8: what a ^ b becomes when the wrong operator is typed.
BitOr(a, b) == OrBits(a, b, U8Bits)

\* a ^ b on u8
BitXor(a, b) == XorBits(a, b, U8Bits)

RECURSIVE AndBits(_, _, _)
AndBits(a, b, n) ==
    IF n = 0 THEN 0
    ELSE ((a % 2) * (b % 2)) + 2 * AndBits(a \div 2, b \div 2, n - 1)

\* a & b on u8
BitAnd(a, b) == AndBits(a, b, U8Bits)

\* 1 << idx on u8, for idx < 8
Shl1(idx) == Pow2(idx) % Pow2(U8Bits)

\* Bit b of byte x, by division: used to state properties, not by the code.
BitOf(x, b) == (x \div Pow2(b)) % 2

(***************************************************************************)
(* crypto::xor::repeating_key_xor                                          *)
(*   zip(bytes, key.as_bytes().iter().cycle()).map(|(a, &b)| a ^ b)        *)
(*                                                                         *)
(* Cycle keeps a position in the key; next() yields the key byte there and *)
(* past the last byte starts over from a fresh copy of the iterator.  The  *)
(* cycle of an empty key yields nothing, and zip stops at the shorter of   *)
(* its two iterators: an empty key gives an empty result.                  *)
(***************************************************************************)
\* A key iterator that is not cycled: it runs out after its last byte.
PlainNext(key, pos) == pos + 1

\* The position after pos in the cycled key (1-based).
CycleNext(key, pos) == IF pos >= Len(key) THEN 1 ELSE pos + 1

RECURSIVE ZipXor(_, _, _, _)
ZipXor(buf, key, i, pos) ==
    IF i > Len(buf) \/ pos > Len(key) THEN <<>>
    ELSE <<BitXor(buf[i], key[pos])>> \o ZipXor(buf, key, i + 1, CycleNext(key, pos))

\* The first byte of a key, as a key (empty for an empty key).
Take1(key) == SubSeq(key, 1, IF Len(key) > 0 THEN 1 ELSE 0)

\* A key that does not repeat in full: only its first byte is used.
first_byte_xor(buf, key) == ZipXor(buf, Take1(key), 1, 1)

repeating_key_xor(buf, key) == ZipXor(buf, key, 1, 1)

(***************************************************************************)
(* The XOR specification: encrypt a buffer, then decrypt the result with   *)
(* the same key (tests::test_repeating_key_xor and spec section 4.5).      *)
(***************************************************************************)
XorBytes == {0, 99, 255}        \* 0x00, 'c', 0xFF

KeyChars == {73, 67, 69}        \* 'I', 'C', 'E': a key is a &str, here ASCII

InitXor ==
    /\ pc = "ready"
    /\ bytes \in SeqsUpTo(XorBytes, MaxLen)
    /\ args = [op |-> "none"]
    /\ ret = [op |-> "none"]

Encrypt ==
    /\ pc = "ready"
    /\ \E key \in SeqsUpTo(KeyChars, MaxKeyLen) :
        /\ args' = [op |-> "repeating_key_xor", key |-> key]
        /\ ret' = [encrypted |-> repeating_key_xor(bytes, key)]
    /\ pc' = "encrypted"
    /\ UNCHANGED bytes

Decrypt ==
    /\ pc = "encrypted"
    /\ ret' = [encrypted |-> ret.encrypted,
               decrypted |-> repeating_key_xor(ret.encrypted, args.key)]
    /\ pc' = "decrypted"
    /\ UNCHANGED <<bytes, args>>

NextXor == Encrypt \/ Decrypt

SpecXor == InitXor /\ [][NextXor]_vars

\* C1: for every buffer P and non-empty key K, repeating_key_xor applied
\* twice with K gives P back: same length, same bytes in the same order.
C1_XorTwiceIsIdentity ==
    (pc = "decrypted" /\ Len(args.key) > 0) => ret.decrypted = bytes

\* A buffer longer than its key, with a non-zero ciphertext, decrypted.
C1_Witness ==
    /\ pc = "decrypted"
    /\ Len(args.key) > 0
    /\ Len(bytes) > Len(args.key)
    /\ ret.encrypted # bytes
    /\ ret.decrypted = bytes

\* C2: for every buffer B and non-empty key K the result has B's length and
\* its byte at index i is B[i] XOR K[i mod len(K)] (0-based), stated bit by
\* bit: bit b of the result is set iff bit b of exactly one operand is set.
C2_XorCyclesKey ==
    (pc = "encrypted" /\ Len(args.key) > 0) =>
        /\ Len(ret.encrypted) = Len(bytes)
        /\ \A i \in 0..(Len(bytes) - 1) : \A b \in 0..7 :
              BitOf(ret.encrypted[i + 1], b) =
                  IF BitOf(bytes[i + 1], b) # BitOf(args.key[(i % Len(args.key)) + 1], b)
                  THEN 1 ELSE 0
        /\ \A i \in 1..Len(bytes) : ret.encrypted[i] \in 0..255

\* A two-byte key wraps around twice over a four-byte buffer.
C2_Witness ==
    /\ pc = "encrypted"
    /\ Len(args.key) = 2
    /\ Len(bytes) = 4
    /\ args.key[1] # args.key[2]
    /\ ret.encrypted[3] = BitXor(bytes[3], args.key[1])
    /\ ret.encrypted[3] # BitXor(bytes[3], args.key[2])

(***************************************************************************)
(* analysis::distance::count_set_bits and hamming_distance                 *)
(*                                                                         *)
(* crypto::xor::xor_bytes, which hamming_distance calls, is not among the  *)
(* source files; it is modelled from the specification's words ("single    *)
(* XOR of two equal-length buffers") as the zip of xor_hex_strings.        *)
(***************************************************************************)
\* A range that stops one bit short.
BitRangeShort == 0..6

\* The bit positions count_set_bits looks at: 0..8, the end excluded.
BitRange == 0..7

\* (0..8).filter(|&idx| (1 << idx) & byte != 0).count()
count_set_bits(byte) == Cardinality({idx \in BitRange : BitAnd(Shl1(idx), byte) # 0})

xor_bytes(a, b) == [i \in 1..Min(Len(a), Len(b)) |-> BitXor(a[i], b[i])]

RECURSIVE SumSeq(_)
SumSeq(s) == IF s = <<>> THEN 0 ELSE Head(s) + SumSeq(Tail(s))

\* xored.iter().map(|&byte| count_set_bits(byte)).sum()
hamming_distance(a, b) ==
    LET xored == xor_bytes(a, b)
    IN  SumSeq([i \in 1..Len(xored) |-> count_set_bits(xored[i])])

(***************************************************************************)
(* The Hamming specification: the distance of the buffer to a second       *)
(* buffer of the same length.                                              *)
(***************************************************************************)
HamBytes == {0, 129, 255}

InitHamming ==
    /\ pc = "ready"
    /\ bytes \in SeqsUpTo(HamBytes, MaxHamLen)
    /\ args = [op |-> "none"]
    /\ ret = [op |-> "none"]

Hamming ==
    /\ pc = "ready"
    /\ \E b \in [1..Len(bytes) -> HamBytes] :
        /\ args' = [op |-> "hamming_distance", b |-> b]
        /\ ret' = [distance |-> hamming_distance(bytes, b)]
    /\ pc' = "measured"
    /\ UNCHANGED bytes

NextHamming == Hamming

SpecHamming == InitHamming /\ [][NextHamming]_vars

\* The bit positions (byte index, bit index) in which a and b differ.
DifferingBits(a, b) ==
    {p \in (1..Len(a)) \X (0..7) : BitOf(a[p[1]], p[2]) # BitOf(b[p[1]], p[2])}

\* C3: for equal-length buffers A and B, hamming_distance(A, B) equals
\* hamming_distance(B, A), hamming_distance(A, A) is 0, and the value is the
\* number of bit positions in which A and B differ.
C3_HammingSymmetricCountsBits ==
    pc = "measured" =>
        /\ ret.distance = hamming_distance(args.b, bytes)
        /\ hamming_distance(bytes, bytes) = 0
        /\ hamming_distance(args.b, args.b) = 0
        /\ ret.distance = Cardinality(DifferingBits(bytes, args.b))

\* Two different three-byte buffers that differ in the top bit of a byte.
C3_Witness ==
    /\ pc = "measured"
    /\ Len(bytes) = 3
    /\ bytes # args.b
    /\ bytes[1] = 129 /\ args.b[1] = 0
    /\ ret.distance > 2

(***************************************************************************)
(* f32 arithmetic, as far as the program uses it: non-negative numbers     *)
(* below 2^24, the zeros of both signs and the NaN of 0.0 / 0.0.  A number *)
(* is m * 2^e with                                                         *)
(* m = 0 (and e = 0) or 2^23 <= m < 2^24; every operation rounds to the    *)
(* nearest such number, ties to the even mantissa.  The sign of the NaN a  *)
(* division produces is the machine's choice (neg).                        *)
(***************************************************************************)
\* The literal 0.0 and 0 as f32
F32Zero == [nan |-> FALSE, neg |-> FALSE, m |-> 0, e |-> 0]

\* -0.0, what the sum of an empty f32 iterator starts from
F32NegZero == [nan |-> FALSE, neg |-> TRUE, m |-> 0, e |-> 0]

F32NaN(neg) == [nan |-> TRUE, neg |-> neg, m |-> 0, e |-> 0]

MantLo == Pow2(23)

MantHi == Pow2(24)

\* The least s >= 0 with n * 2^s >= 2^23 * d.
RECURSIVE ScaleUp(_, _, _)
ScaleUp(n, d, s) == IF n * Pow2(s) >= MantLo * d THEN s ELSE ScaleUp(n, d, s + 1)

\* The f32 nearest to (n / d) * 2^e, for integers 0 < n < 2^24 * d.
RoundQuot(n, d, e) ==
    LET s == ScaleUp(n, d, 0)
        q == (n * Pow2(s)) \div d
        r == (n * Pow2(s)) % d
        up == (2 * r > d) \/ (2 * r = d /\ q % 2 = 1)
        q1 == IF up THEN q + 1 ELSE q
    IN  IF q1 = MantHi
        THEN [nan |-> FALSE, neg |-> FALSE, m |-> MantLo, e |-> e - s + 1]
        ELSE [nan |-> FALSE, neg |-> FALSE, m |-> q1, e |-> e - s]

\* The least t >= 0 with n < 2^(24 + t).
RECURSIVE ScaleDown(_, _)
ScaleDown(n, t) == IF n < MantHi * Pow2(t) THEN t ELSE ScaleDown(n, t + 1)

\* The f32 nearest to n * 2^e, for an integer n >= 2^23.
RoundInt(n, e) ==
    LET t == ScaleDown(n, 0)
        q == n \div Pow2(t)
        r == n % Pow2(t)
        up == t > 0 /\ ((2 * r > Pow2(t)) \/ (2 * r = Pow2(t) /\ q % 2 = 1))
        q1 == IF up THEN q + 1 ELSE q
    IN  IF q1 = MantHi
        THEN [nan |-> FALSE, neg |-> FALSE, m |-> MantLo, e |-> e + t + 1]
        ELSE [nan |-> FALSE, neg |-> FALSE, m |-> q1, e |-> e + t]

\* n as f32, for a usize n < 2^24 (exact).
F32FromInt(n) == IF n = 0 THEN F32Zero ELSE RoundQuot(n, 1, 0)

\* The number of trailing zero bits of n > 0.
RECURSIVE TrailingZeros(_)
TrailingZeros(n) == IF n % 2 = 1 THEN 0 ELSE 1 + TrailingZeros(n \div 2)

\* a / b, for b not negative: 0.0 / 0.0 is NaN for either sign of the zero
\* a; a zero a over a number keeps its sign; a non-zero a over 0.0 would be
\* infinite and does not occur (an empty sum is zero).
F32Div(a, b, neg) ==
    IF a.nan THEN a
    ELSE IF b.m = 0 THEN F32NaN(neg)
    ELSE IF a.m = 0 THEN a
    ELSE LET z == TrailingZeros(b.m)
         IN  RoundQuot(a.m, b.m \div Pow2(z), a.e - b.e - z)

\* a + b, for numbers that are not negative and zeros of either sign: the
\* sum of two zeros is -0.0 only when both are.
F32Add(a, b) ==
    IF a.nan THEN a
    ELSE IF b.nan THEN b
    ELSE IF a.m = 0 /\ b.m = 0 THEN (IF a.neg /\ b.neg THEN F32NegZero ELSE F32Zero)
    ELSE IF a.m = 0 THEN b
    ELSE IF b.m = 0 THEN a
    ELSE LET e == Min(a.e, b.e)
         IN  RoundInt(a.m * Pow2(a.e - e) + b.m * Pow2(b.e - e), e)

\* The least s >= 0 with n * 2^s >= 2^23, for 0 < n < 2^23.
RECURSIVE LeadingShift(_, _)
LeadingShift(n, s) == IF n * Pow2(s) >= MantLo THEN s ELSE LeadingShift(n, s + 1)

\* (a - b).abs(), for non-negative numbers: the exact difference at the
\* smaller exponent, rounded to 24 bits.
F32AbsDiff(a, b) ==
    IF a.m = 0 /\ b.m = 0 THEN F32Zero
    ELSE IF a.m = 0 THEN b
    ELSE IF b.m = 0 THEN a
    ELSE LET e == Min(a.e, b.e)
             x == a.m * Pow2(a.e - e)
             y == b.m * Pow2(b.e - e)
             d == IF x >= y THEN x - y ELSE y - x
         IN  IF d = 0 THEN F32Zero
             ELSE IF d >= MantLo THEN RoundInt(d, e)
             ELSE LET s == LeadingShift(d, 0)
                  IN  [nan |-> FALSE, neg |-> FALSE, m |-> d * Pow2(s), e |-> e - s]

\* Where f32::total_cmp puts a value: a negative NaN below every number, a
\* positive NaN above, -0.0 below 0.0.  Numbers here are not negative,
\* ordered by (e, m).
F32Class(a) == IF a.nan THEN (IF a.neg THEN 0 ELSE 2) ELSE 1

F32Less(a, b) ==
    \/ F32Class(a) < F32Class(b)
    \/ /\ F32Class(a) = 1 /\ F32Class(b) = 1
       /\ \/ a.m = 0 /\ b.m > 0
          \/ a.m = 0 /\ b.m = 0 /\ a.neg /\ ~b.neg
          \/ a.m > 0 /\ b.m > 0 /\ (a.e < b.e \/ (a.e = b.e /\ a.m < b.m))

\* a.total_cmp(b): -1 Less, 0 Equal, 1 Greater
total_cmp(a, b) == IF F32Less(a, b) THEN -1 ELSE IF F32Less(b, a) THEN 1 ELSE 0

(***************************************************************************)
(* analysis::distance::probable_key_sizes                                  *)
(***************************************************************************)
\* A guard that forgets the factor two.
SizeGuardLoose(key_size, byte_count) == key_size <= byte_count

\* The size guard of the filter: 2 * key_size <= byte_count
SizeGuard(key_size, byte_count) == 2 * key_size <= byte_count

\* (1..max_key_size).filter(..): the candidate sizes in ascending order.
RECURSIVE Candidates(_, _, _)
Candidates(k, max_key_size, byte_count) ==
    IF k >= max_key_size THEN <<>>
    ELSE (IF SizeGuard(k, byte_count) THEN <<k>> ELSE <<>>)
         \o Candidates(k + 1, max_key_size, byte_count)

\* bytes.chunks_exact(key_size): the full chunks, the remainder dropped.
chunks_exact(buf, key_size) ==
    [c \in 1..(Len(buf) \div key_size) |->
        SubSeq(buf, (c - 1) * key_size + 1, c * key_size)]

\* .take(n)
Take(s, n) == SubSeq(s, 1, Min(n, Len(s)))

\* .tuple_windows(): the adjacent pairs, none when there are fewer than two.
tuple_windows(s) == [i \in 1..Max(Len(s) - 1, 0) |-> <<s[i], s[i + 1]>>]

\* hamming_distance(a, b) as f32 / key_size as f32, for every pair
norm_distances(buf, key_size, chunks_to_consider, neg) ==
    LET pairs == tuple_windows(Take(chunks_exact(buf, key_size), chunks_to_consider))
    IN  [i \in 1..Len(pairs) |->
            F32Div(F32FromInt(hamming_distance(pairs[i][1], pairs[i][2])),
                   F32FromInt(key_size), neg)]

\* The fold of a sum: acc + x for every element x in turn (a sum that is
\* NaN stays NaN whatever is added)
RECURSIVE F32Sum(_, _)
F32Sum(s, acc) ==
    IF s = <<>> THEN acc
    ELSE LET next == F32Add(acc, Head(s))
         IN  IF next.nan THEN next ELSE F32Sum(Tail(s), next)

\* .sum::<f32>(): the fold from -0.0, so the sum of nothing is -0.0
sum_f32(s) == F32Sum(s, F32NegZero)

\* norm_distances.iter().sum::<f32>() / norm_distances.len() as f32
average_distance(buf, key_size, chunks_to_consider, neg) ==
    LET nd == norm_distances(buf, key_size, chunks_to_consider, neg)
    IN  F32Div(sum_f32(nd), F32FromInt(Len(nd)), neg)

\* The comparison of sorted_by turned around: descending order.
CompareReversed(p, q) == total_cmp(q[2], p[2])

\* |(_, val1), (_, val2)| val1.total_cmp(val2)
Compare(p, q) == total_cmp(p[2], q[2])

\* sorted_by is a stable sort: an element goes behind every element that
\* does not compare Greater than it.
RECURSIVE InsertSorted(_, _)
InsertSorted(s, x) ==
    IF s = <<>> THEN <<x>>
    ELSE IF Compare(Head(s), x) > 0 THEN <<x>> \o s
    ELSE <<Head(s)>> \o InsertSorted(Tail(s), x)

RECURSIVE SortedBy(_, _)
SortedBy(s, acc) ==
    IF s = <<>> THEN acc ELSE SortedBy(Tail(s), InsertSorted(acc, Head(s)))

probable_key_sizes(buf, keys_to_consider, chunks_to_consider, max_key_size, neg) ==
    LET byte_count == Len(buf)
        sizes == Candidates(1, max_key_size, byte_count)
        scored == [i \in 1..Len(sizes) |->
                     <<sizes[i], average_distance(buf, sizes[i], chunks_to_consider, neg)>>]
        ranked == SortedBy(scored, <<>>)
    IN  Take([i \in 1..Len(ranked) |-> ranked[i][1]], keys_to_consider)

(***************************************************************************)
(* The key-size specification: one call of probable_key_sizes.             *)
(***************************************************************************)
KsBytes == {0, 1}

InitKeySize ==
    /\ pc = "ready"
    /\ bytes \in SeqsUpTo(KsBytes, MaxKsLen)
    /\ args = [op |-> "none"]
    /\ ret = [op |-> "none"]

KeySizes ==
    /\ pc = "ready"
    /\ \E keys_to_consider \in 0..MaxTopN, chunks_to_consider \in 0..MaxChunks,
          max_key_size \in 0..MaxKeySize, neg \in BOOLEAN :
        /\ args' = [op |-> "probable_key_sizes",
                    keys_to_consider |-> keys_to_consider,
                    chunks_to_consider |-> chunks_to_consider,
                    max_key_size |-> max_key_size]
        /\ ret' = [sizes |-> probable_key_sizes(bytes, keys_to_consider,
                                 chunks_to_consider, max_key_size, neg)]
    /\ pc' = "ranked"
    /\ UNCHANGED bytes

NextKeySize == KeySizes

SpecKeySize == InitKeySize /\ [][NextKeySize]_vars

\* The lengths the estimator may rank: k in [1, max_key_size) with
\* 2 * k <= len(bytes).
Admissible == {k \in 1..(args.max_key_size - 1) : 2 * k <= Len(bytes)}

\* C4: probable_key_sizes never returns a length k with 2*k > len(bytes),
\* every returned k lies in [1, maxKeySize), and the result is empty when
\* bytes is empty or no length passes the guard.
C4_KeySizesWithinGuard ==
    pc = "ranked" =>
        /\ \A i \in 1..Len(ret.sizes) :
              /\ 2 * ret.sizes[i] <= Len(bytes)
              /\ 1 <= ret.sizes[i]
              /\ ret.sizes[i] < args.max_key_size
        /\ (Len(bytes) = 0 \/ Admissible = {}) => ret.sizes = <<>>

\* Five bytes and max_key_size 4: lengths 1 and 2 are returned, and length
\* 3, below max_key_size, is kept out by the guard alone.
C4_Witness ==
    /\ pc = "ranked"
    /\ Len(bytes) = 5
    /\ args.max_key_size = 4
    /\ args.keys_to_consider = 3
    /\ Len(ret.sizes) = 2

\* The adjacent pairs of sampled chunks of length k.
NPairs(k) == Max(Min(args.chunks_to_consider, Len(bytes) \div k) - 1, 0)

\* The sum over those pairs of the number of differing bits.
PairBits(k) ==
    Cardinality({t \in (1..NPairs(k)) \X (1..k) \X (0..7) :
        BitOf(bytes[(t[1] - 1) * k + t[2]], t[3]) # BitOf(bytes[t[1] * k + t[2]], t[3])})

\* The average normalized distance of k is PairBits(k) / (k * NPairs(k)), a
\* number when k has a pair.  AvgLess(k1, k2): both are numbers and that of
\* k1 is strictly lower.
AvgLess(k1, k2) ==
    /\ NPairs(k1) > 0
    /\ NPairs(k2) > 0
    /\ PairBits(k1) * (k2 * NPairs(k2)) < PairBits(k2) * (k1 * NPairs(k1))

\* The f32 average the code ranks length k by.
RankedAverage(k, neg) == average_distance(bytes, k, args.chunks_to_consider, neg)

\* C5: the result is the admissible lengths ordered ascending by average
\* normalized Hamming distance, cut to the first topN: it holds
\* min(topN, number of admissible lengths) distinct admissible lengths, no
\* later one has a strictly lower average than an earlier one (as exact
\* fractions, and as the f32 values in the order of total_cmp), and no
\* omitted admissible length has a strictly lower average than a returned one.
C5_KeySizesRankedAscending ==
    pc = "ranked" =>
        /\ Len(ret.sizes) = Min(args.keys_to_consider, Cardinality(Admissible))
        /\ \A i \in 1..Len(ret.sizes) : ret.sizes[i] \in Admissible
        /\ \A i, j \in 1..Len(ret.sizes) :
              i < j => (ret.sizes[i] # ret.sizes[j] /\ ~AvgLess(ret.sizes[j], ret.sizes[i]))
        /\ \A i, j \in 1..Len(ret.sizes) : \A neg \in BOOLEAN :
              i < j => total_cmp(RankedAverage(ret.sizes[i], neg),
                                 RankedAverage(ret.sizes[j], neg)) <= 0
        /\ \A k \in Admissible :
              (\A i \in 1..Len(ret.sizes) : ret.sizes[i] # k) =>
                  \A i \in 1..Len(ret.sizes) : ~AvgLess(k, ret.sizes[i])

\* Three admissible lengths, two returned: length 3 ranks first with a
\* strictly lower average than the second, and an admissible length is omitted.
C5_Witness ==
    /\ pc = "ranked"
    /\ Cardinality(Admissible) = 3
    /\ args.keys_to_consider = 2
    /\ Len(ret.sizes) = 2
    /\ ret.sizes[1] = 3
    /\ AvgLess(ret.sizes[1], ret.sizes[2])

(***************************************************************************)
(* analysis::distance::transpose_byte_chunks                               *)
(*                                                                         *)
(* A call either returns the blocks or panics.  debug_assert! is compiled  *)
(* in only with debug assertions (the dev profile); the u32 division of    *)
(* line 48 panics on a zero divisor in every profile, and so does the      *)
(* usize remainder of line 56.                                             *)
(***************************************************************************)
Panic(why) == [panic |-> TRUE, why |-> why]

\* A capacity computed without dividing: bytes.len() as u32 + 1
CapacityNoDivision(len, block_size) == [panic |-> FALSE, value |-> len + 1]

\* let block_bytes_capacity = bytes.len() as u32 / block_size + 1;
block_bytes_capacity(len, block_size) ==
    IF block_size = 0 THEN Panic("attempt to divide by zero")
    ELSE [panic |-> FALSE, value |-> (len \div block_size) + 1]

\* One block too many: (0..=block_size)
EmptyBlocksInclusive(block_size) == [i \in 1..(block_size + 1) |-> <<>>]

\* (0..block_size).map(|_| Vec::with_capacity(..)).collect_vec()
EmptyBlocks(block_size) == [i \in 1..block_size |-> <<>>]

\* The block after the right one: (idx + 1) % block_size
BlockIndexShifted(idx, block_size) == (idx + 1) % block_size

\* idx % block_size as usize
BlockIndex(idx, block_size) == idx % block_size

\* .enumerate().for_each(|(idx, &byte)| byte_blocks[idx % block_size].push(byte))
\* idx is 0-based; sequences and blocks are 1-based.
RECURSIVE PushAll(_, _, _, _)
PushAll(buf, idx, byte_blocks, block_size) ==
    IF idx >= Len(buf) THEN [panic |-> FALSE, blocks |-> byte_blocks]
    ELSE IF block_size = 0
         THEN Panic("attempt to calculate the remainder with a divisor of zero")
    ELSE LET b == BlockIndex(idx, block_size) + 1
         IN  PushAll(buf, idx + 1,
                     [byte_blocks EXCEPT ![b] = Append(@, buf[idx + 1])], block_size)

transpose_byte_chunks(buf, block_size, debug_assertions) ==
    IF debug_assertions /\ ~(block_size > 0)
    THEN Panic("assertion failed: block_size > 0")
    ELSE LET capacity == block_bytes_capacity(Len(buf), block_size)
         IN  IF capacity.panic THEN capacity
             ELSE PushAll(buf, 0, EmptyBlocks(block_size), block_size)

(***************************************************************************)
(* The transposer specification: one call of transpose_byte_chunks, in a   *)
(* build with or without debug assertions.                                 *)
(***************************************************************************)
TrBytes == {1, 2, 4}

InitTranspose ==
    /\ pc = "ready"
    /\ bytes \in SeqsUpTo(TrBytes, MaxTrLen)
    /\ args = [op |-> "none"]
    /\ ret = [op |-> "none"]

Transpose ==
    /\ pc = "ready"
    /\ \E block_size \in 0..MaxBlockSize, debug_assertions \in BOOLEAN :
        /\ args' = [op |-> "transpose_byte_chunks", block_size |-> block_size,
                    debug_assertions |-> debug_assertions]
        /\ ret' = transpose_byte_chunks(bytes, block_size, debug_assertions)
    /\ pc' = "transposed"
    /\ UNCHANGED bytes

NextTranspose == Transpose

SpecTranspose == InitTranspose /\ [][NextTranspose]_vars

\* Round r of a round-robin pass over the streams, from stream s on: the
\* r-th byte of every stream that has one.
RECURSIVE RoundFrom(_, _, _)
RoundFrom(streams, r, s) ==
    IF s > Len(streams) THEN <<>>
    ELSE (IF Len(streams[s]) >= r THEN <<streams[s][r]>> ELSE <<>>)
         \o RoundFrom(streams, r, s + 1)

\* The streams re-interleaved: stream 0, stream 1, ..., then again,
\* skipping exhausted streams, until every stream is exhausted.
RECURSIVE Interleave(_, _)
Interleave(streams, r) ==
    IF \A s \in 1..Len(streams) : Len(streams[s]) < r THEN <<>>
    ELSE RoundFrom(streams, r, 1) \o Interleave(streams, r + 1)

\* C6: for every buffer and every k in 1..=len(bytes), re-interleaving the
\* k streams of transpose_byte_chunks(bytes, k) in round-robin order gives
\* bytes back exactly.
C6_TransposeInterleaveRoundTrip ==
    (pc = "transposed" /\ args.block_size >= 1 /\ args.block_size <= Len(bytes)) =>
        /\ ~ret.panic
        /\ Interleave(ret.blocks, 1) = bytes

\* Five bytes, not all equal, in three streams of unequal length.
C6_Witness ==
    /\ pc = "transposed"
    /\ Len(bytes) = 5
    /\ args.block_size = 3
    /\ bytes[1] # bytes[2] /\ bytes[2] # bytes[3] /\ bytes[4] # bytes[1]
    /\ ~ret.panic
    /\ Len(ret.blocks[1]) = 2 /\ Len(ret.blocks[3]) = 1
    /\ Interleave(ret.blocks, 1) = bytes

\* The buffer positions (0-based) that fall into stream i of k.
PositionsOf(i, k) == {p \in 0..(Len(bytes) - 1) : p % k = i}

\* C7: for every buffer and every keySize > 0 the call returns exactly
\* keySize streams, and stream i holds exactly the bytes at the positions p
\* with p mod keySize = i, in increasing order of p (no such position: empty).
C7_TransposeStreamsByResidue ==
    (pc = "transposed" /\ args.block_size > 0) =>
        /\ ~ret.panic
        /\ Len(ret.blocks) = args.block_size
        /\ \A i \in 0..(args.block_size - 1) :
              /\ Len(ret.blocks[i + 1]) = Cardinality(PositionsOf(i, args.block_size))
              /\ \A j \in 1..Len(ret.blocks[i + 1]) :
                    ret.blocks[i + 1][j] = bytes[i + (j - 1) * args.block_size + 1]

\* More streams than bytes: the last streams are empty, the first are not.
C7_Witness ==
    /\ pc = "transposed"
    /\ Len(bytes) = 4
    /\ args.block_size = 6
    /\ ~ret.panic
    /\ ret.blocks[4] = <<bytes[4]>>
    /\ ret.blocks[5] = <<>>
    /\ ret.blocks[6] = <<>>

\* C8: a call with keySize = 0 panics at once, for every buffer, the empty
\* one included, and with or without debug assertions; it returns no result.
C8_TransposeZeroRejected ==
    (pc = "transposed" /\ args.block_size = 0) => ret.panic

\* The empty buffer and block size 0 in a build without debug assertions:
\* the division by zero is what rejects the call.
C8_Witness ==
    /\ pc = "transposed"
    /\ args.block_size = 0
    /\ bytes = <<>>
    /\ ~args.debug_assertions
    /\ ret.panic

(***************************************************************************)
(* encoding::hex::encode and decode.  A hex string is a sequence of        *)
(* characters (code points).                                               *)
(***************************************************************************)
\* char::from_digit(digit, 16) followed by to_uppercase(): '0'..'9', 'A'..'F'
from_digit_upper(digit) == IF digit < 10 THEN 48 + digit ELSE 65 + (digit - 10)

\* char.to_digit(16), -1 for None (the unwrap of decode then panics).
to_digit(char) ==
    IF char \in 48..57 THEN char - 48
    ELSE IF char \in 97..102 THEN char - 97 + 10
    ELSE IF char \in 65..70 THEN char - 65 + 10
    ELSE -1

\* high = byte >> 4, low = byte & 0b1111, two characters per byte
RECURSIVE hex_encode(_)
hex_encode(buf) ==
    IF buf = <<>> THEN <<>>
    ELSE <<from_digit_upper(Head(buf) \div 16), from_digit_upper(BitAnd(Head(buf), 15))>>
         \o hex_encode(Tail(buf))

\* batching: two digits (x, y) make x << 4 | y; a last single digit x makes
\* (x, 0).
RECURSIVE batching(_)
batching(digits) ==
    IF digits = <<>> THEN <<>>
    ELSE IF Len(digits) = 1 THEN <<digits[1] * 16>>
    ELSE <<digits[1] * 16 + digits[2]>> \o batching(SubSeq(digits, 3, Len(digits)))

\* decode: every character is unwrapped as a hexadecimal digit, so a
\* character that is none ends the program; otherwise the bytes are
\* returned ([panic |-> FALSE, value |-> ..]).
hex_decode(hex) ==
    IF \E i \in 1..Len(hex) : to_digit(hex[i]) = -1
    THEN Panic("called Option::unwrap() on a None value")
    ELSE [panic |-> FALSE, value |-> batching([i \in 1..Len(hex) |-> to_digit(hex[i])])]

(***************************************************************************)
(* crypto::xor::xor_with_byte and xor_with_char                            *)
(***************************************************************************)
\* hex::decode(hex_string) and b ^ byte for every byte; the panic of decode
\* passes through.
xor_with_byte(hex_string, byte) ==
    LET decoded == hex_decode(hex_string)
    IN  IF decoded.panic THEN decoded
        ELSE [panic |-> FALSE,
              value |-> [i \in 1..Len(decoded.value) |-> BitXor(decoded.value[i], byte)]]

\* ch as u8 keeps the low eight bits of the code point
xor_with_char(hex_string, ch) == xor_with_byte(hex_string, ch % 256)

(***************************************************************************)
(* analysis::frequency                                                     *)
(***************************************************************************)
\* char::from_u32: None (-1) for a surrogate or a value past U+10FFFF.
from_u32(n) == IF (n >= 55296 /\ n <= 57343) \/ n > 1114111 THEN -1 ELSE n

\* bytes.iter().filter_map(|&byte| char::from_u32(byte as u32)).collect()
RECURSIVE bytes_to_string(_)
bytes_to_string(buf) ==
    IF buf = <<>> THEN <<>>
    ELSE (IF from_u32(Head(buf)) = -1 THEN <<>> ELSE <<from_u32(Head(buf))>>)
         \o bytes_to_string(Tail(buf))

\* The number of occurrences of ch in text.
Occurrences(text, ch) == Cardinality({i \in 1..Len(text) : text[i] = ch})

\* Frequencies over the characters of the set only: the total is the number
\* of characters of the text that are in the set.
FrequenciesOfFiltered(character_set, text) ==
    LET in_set == {i \in 1..Len(text) : text[i] \in character_set}
    IN  [ch \in {text[i] : i \in in_set} |->
            F32Div(F32FromInt(Occurrences(text, ch)),
                   F32FromInt(Cardinality(in_set)), FALSE)]

\* A BTreeMap<char, f32> is a function on its keys.  An empty text gives
\* the empty map; otherwise every character of the text that is in the set
\* maps to occurrences / total_count.
calculate_frequencies(character_set, text) ==
    LET total_count == Len(text)
    IN  IF total_count = 0 THEN [ch \in {} |-> F32Zero]
        ELSE [ch \in {text[i] : i \in 1..Len(text)} \cap character_set |->
                 F32Div(F32FromInt(Occurrences(text, ch)), F32FromInt(total_count), FALSE)]

\* map.get(&ch).unwrap_or(&0.0)
GetOrZero(map, ch) == IF ch \in DOMAIN map THEN map[ch] ELSE F32Zero

\* The sum of |expected - actual| over the character set, added up in the
\* order in which the HashSet is iterated (iter_order lists the set).
score_text(text, expected_frequency, character_set, iter_order) ==
    LET actual_frequency == calculate_frequencies(character_set, text)
    IN  sum_f32([i \in 1..Len(iter_order) |->
                    F32AbsDiff(GetOrZero(expected_frequency, iter_order[i]),
                               GetOrZero(actual_frequency, iter_order[i]))])

\* score_a.partial_cmp(score_b).unwrap_or(Equal): -1 Less, 0 Equal, 1
\* Greater; a NaN compares Equal to everything, and -0.0 Equal to 0.0.
partial_cmp_or_equal(a, b) ==
    IF a.nan \/ b.nan THEN 0
    ELSE IF a.m = 0 /\ b.m = 0 THEN 0
    ELSE total_cmp(a, b)

\* max_by in place of min_by: the later element wins unless it is less.
MaxByStep(x, y) == IF partial_cmp_or_equal(x.score, y.score) = 1 THEN x ELSE y

\* One step of Iterator::min_by: the earlier element x stays unless the
\* later element y compares strictly less.
MinByStep(x, y) == IF partial_cmp_or_equal(x.score, y.score) = 1 THEN y ELSE x

RECURSIVE MinBy(_, _)
MinBy(best, rest) ==
    IF rest = <<>> THEN best
    ELSE LET next == MinByStep(best, Head(rest))
         IN  IF next.some THEN MinBy(next, Tail(rest)) ELSE next

\* Option<(f32, String)>: None is [some |-> FALSE].  With a character to try,
\* a ciphertext that is not hexadecimal ends the program in decode.
break_single_byte_xor(hex_ciphertext, expected_frequency, character_set, iter_order) ==
    LET scored == [i \in 1..Len(iter_order) |->
                     LET plaintext == bytes_to_string(
                                          xor_with_char(hex_ciphertext, iter_order[i]).value)
                     IN  [some |-> TRUE,
                          score |-> score_text(plaintext, expected_frequency,
                                               character_set, iter_order),
                          plaintext |-> plaintext]]
    IN  IF iter_order = <<>> THEN [some |-> FALSE]
        ELSE IF hex_decode(hex_ciphertext).panic THEN hex_decode(hex_ciphertext)
        ELSE MinBy(Head(scored), Tail(scored))

(***************************************************************************)
(* The breaker specification: one call of break_single_byte_xor on the hex *)
(* encoding of the buffer, as examples/set1_challenge3.rs makes it: the    *)
(* frequency table is calculate_frequencies of a baseline text over the    *)
(* same character set.  A HashSet iterates in an order of its own, the     *)
(* same for every iteration of one set.                                    *)
(***************************************************************************)
BrBytes == {0, 3, 128}

CharUniverse == {97, 98, 233, 353}              \* 'a', 'b', U+00E9, U+0161

BaselineTexts == {<<>>, <<97, 97, 98, 32>>}     \* "", "aab "

\* The orders in which a set can be iterated.
IterOrders(S) ==
    {f \in [1..Cardinality(S) -> S] : \A i, j \in 1..Cardinality(S) : i # j => f[i] # f[j]}

InitBreak ==
    /\ pc = "ready"
    /\ bytes \in SeqsUpTo(BrBytes, MaxBrLen)
    /\ args = [op |-> "none"]
    /\ ret = [op |-> "none"]

Break ==
    /\ pc = "ready"
    /\ \E character_set \in SUBSET CharUniverse, baseline \in BaselineTexts :
        \E iter_order \in IterOrders(character_set) :
          LET expected_frequency == calculate_frequencies(character_set, baseline)
              hex_ciphertext == hex_encode(bytes)
          IN  /\ args' = [op |-> "break_single_byte_xor",
                          hex_ciphertext |-> hex_ciphertext,
                          expected_frequency |-> expected_frequency,
                          character_set |-> character_set,
                          iter_order |-> iter_order,
                          baseline |-> baseline]
              /\ ret' = break_single_byte_xor(hex_ciphertext, expected_frequency,
                                              character_set, iter_order)
    /\ pc' = "broken"
    /\ UNCHANGED bytes

NextBreak == Break

SpecBreak == InitBreak /\ [][NextBreak]_vars

Abs(x) == IF x < 0 THEN -x ELSE x

\* The candidate plaintext of key character ch, as the claims describe it:
\* every ciphertext byte XORed with the character's byte (the low eight
\* bits of its code point), bit by bit.
IsXorOf(text, ch) ==
    /\ Len(text) = Len(bytes)
    /\ \A i \in 1..Len(bytes) :
          /\ text[i] \in 0..255
          /\ \A b \in 0..7 :
                BitOf(text[i], b) = IF BitOf(bytes[i], b) # BitOf(ch % 256, b) THEN 1 ELSE 0

\* The frequency score of a text as an exact fraction ScoreNum / ScoreDen:
\* the sum over the character set of |expected - actual|, the expected
\* frequency of c being its share of the baseline text and the actual one
\* its share of the text (0 for an empty text).
ScoreDen(text) == Max(Len(args.baseline), 1) * Max(Len(text), 1)

ScoreNum(text) ==
    SumSeq([i \in 1..Len(args.iter_order) |->
        Abs(Occurrences(args.baseline, args.iter_order[i]) * Max(Len(text), 1)
            - Occurrences(text, args.iter_order[i]) * Max(Len(args.baseline), 1))])

\* The score of t1 is strictly better (lower) than that of t2.
StrictlyBetter(t1, t2) == ScoreNum(t1) * ScoreDen(t2) < ScoreNum(t2) * ScoreDen(t1)

\* The text key character ch decrypts the ciphertext to.
Candidate(ch) == bytes_to_string(xor_with_char(args.hex_ciphertext, ch).value)

\* C9: break_single_byte_xor returns nothing for an empty character set;
\* otherwise it returns a plaintext that is the ciphertext XORed byte by byte
\* with one character of the set, with the frequency score of that
\* plaintext, and no candidate of the set has a strictly better score.
C9_BreakReturnsBestCandidate ==
    pc = "broken" =>
        /\ args.character_set = {} => ~ret.some
        /\ args.character_set # {} =>
              /\ ret.some
              /\ \E ch \in args.character_set : IsXorOf(ret.plaintext, ch)
              /\ ret.score = score_text(ret.plaintext, args.expected_frequency,
                                        args.character_set, args.iter_order)
              /\ \A ch \in args.character_set :
                    ~StrictlyBetter(Candidate(ch), ret.plaintext)

\* Three key characters over a two-byte ciphertext: the winner is not the
\* first character iterated and strictly beats another candidate.
C9_Witness ==
    /\ pc = "broken"
    /\ Cardinality(args.character_set) = 3
    /\ Len(bytes) = 2
    /\ args.baseline # <<>>
    /\ ret.some
    /\ ret.plaintext # Candidate(args.iter_order[1])
    /\ StrictlyBetter(ret.plaintext, Candidate(args.iter_order[1]))
    /\ IsXorOf(ret.plaintext, args.iter_order[3])

\* Whether a byte sequence is well-formed UTF-8 (the encoding of a Rust
\* String), from position i on.
Cont(buf, i) == i <= Len(buf) /\ buf[i] >= 128 /\ buf[i] <= 191

RECURSIVE Utf8From(_, _)
Utf8From(buf, i) ==
    IF i > Len(buf) THEN TRUE
    ELSE LET b == buf[i]
         IN  IF b < 128 THEN Utf8From(buf, i + 1)
             ELSE IF b >= 194 /\ b <= 223
                  THEN Cont(buf, i + 1) /\ Utf8From(buf, i + 2)
             ELSE IF b >= 224 /\ b <= 239
                  THEN /\ Cont(buf, i + 1) /\ Cont(buf, i + 2)
                       /\ (b = 224 => buf[i + 1] >= 160)
                       /\ (b = 237 => buf[i + 1] <= 159)
                       /\ Utf8From(buf, i + 3)
             ELSE IF b >= 240 /\ b <= 244
                  THEN /\ Cont(buf, i + 1) /\ Cont(buf, i + 2) /\ Cont(buf, i + 3)
                       /\ (b = 240 => buf[i + 1] >= 144)
                       /\ (b = 244 => buf[i + 1] <= 143)
                       /\ Utf8From(buf, i + 4)
             ELSE FALSE

IsValidUtf8(buf) == Utf8From(buf, 1)

\* The bytes key character ch decrypts the ciphertext to.
CandidateBytes(ch) == xor_with_char(args.hex_ciphertext, ch).value

\* C10: a key character whose XORed bytes are not valid text in the
\* system's encoding (UTF-8) is discarded: the returned plaintext is never
\* that of such a candidate, and when no candidate decodes the result is
\* absent.
C10_UndecodableCandidateDiscarded ==
    pc = "broken" =>
        /\ ret.some =>
              \E ch \in args.character_set :
                  /\ IsValidUtf8(CandidateBytes(ch))
                  /\ ret.plaintext = Candidate(ch)
        /\ (\A ch \in args.character_set : ~IsValidUtf8(CandidateBytes(ch))) => ~ret.some

(***************************************************************************)
(* A String holds its chars in UTF-8: str::len and as_bytes count and      *)
(* give the bytes of that encoding.                                        *)
(***************************************************************************)
\* The UTF-8 encoding of one char
encode_utf8(ch) ==
    IF ch < 128 THEN <<ch>>
    ELSE IF ch < 2048 THEN <<192 + (ch \div 64), 128 + (ch % 64)>>
    ELSE IF ch < 65536
         THEN <<224 + (ch \div 4096), 128 + ((ch \div 64) % 64), 128 + (ch % 64)>>
    ELSE <<240 + (ch \div 262144), 128 + ((ch \div 4096) % 64),
           128 + ((ch \div 64) % 64), 128 + (ch % 64)>>

\* String::from_iter(chars), as key.as_bytes() reads it
RECURSIVE from_iter(_)
from_iter(chars) ==
    IF chars = <<>> THEN <<>> ELSE encode_utf8(Head(chars)) \o from_iter(Tail(chars))

\* str::len: the length in bytes
str_len(text) == Len(from_iter(text))

(***************************************************************************)
(* encoding::base64.  A char is its code point, a String the sequence of   *)
(* its chars.  Shifts and masks are those of u8.                           *)
(***************************************************************************)
MaxB64Len == 4

\* ('A'..='Z').chain('a'..='z').chain('0'..='9').chain(['+', '/'])
BASE64_CHARSET ==
    [i \in 1..26 |-> 64 + i] \o [i \in 1..26 |-> 96 + i]
        \o [i \in 1..10 |-> 47 + i] \o <<43, 47>>

\* The char '='
PadChar == 61

\* a | b on u8
U8Or(a, b) == OrBits(a, b, U8Bits)

\* a << n on u8: the bits shifted past the eighth are lost
U8Shl(a, n) == (a * Pow2(n)) % Pow2(U8Bits)

\* a >> n on u8
U8Shr(a, n) == a \div Pow2(n)

\* Option<u8>: None is -1
IsNone(b) == b = -1

unwrap_or(b, default) == IF IsNone(b) THEN default ELSE b

\* BASE64_CHARSET[value as usize]
encode_sextet(value) == BASE64_CHARSET[value + 1]

encode_triplet(byte_a, byte_b, byte_c) ==
    LET sextet_1 == U8Shr(byte_a, 2)
        sextet_2 == U8Or(U8Shl(BitAnd(byte_a, 3), 4),
                         U8Shr(BitAnd(unwrap_or(byte_b, 0), 240), 4))
        sextet_3 == U8Or(U8Shl(BitAnd(byte_b, 15), 2),
                         U8Shr(BitAnd(unwrap_or(byte_c, 0), 192), 6))
        sextet_4 == BitAnd(byte_c, 63)
        result == <<encode_sextet(sextet_1), encode_sextet(sextet_2)>>
    IN  IF IsNone(byte_b) THEN result
        ELSE IF IsNone(byte_c) THEN Append(result, encode_sextet(sextet_3))
        ELSE result \o <<encode_sextet(sextet_3), encode_sextet(sextet_4)>>

\* bytes.chunks_exact(3).flat_map(|chunk| encode_triplet(..)).collect()
RECURSIVE complete_triplets(_)
complete_triplets(buf) ==
    IF Len(buf) < 3 THEN <<>>
    ELSE encode_triplet(buf[1], buf[2], buf[3]) \o complete_triplets(SubSeq(buf, 4, Len(buf)))

encode(buf) ==
    LET remainder == Len(buf) % 3
        padding == IF remainder = 0 THEN <<>>
                   ELSE IF remainder = 1
                        THEN encode_triplet(buf[Len(buf)], -1, -1) \o <<PadChar, PadChar>>
                   ELSE Append(encode_triplet(buf[Len(buf) - 1], buf[Len(buf)], -1), PadChar)
    IN  complete_triplets(buf) \o padding

\* BASE64_CHARSET.iter().find_position(..).expect(..): the index of the char,
\* 65 for '=', -1 where expect panics.
decode_sextet(value) ==
    IF value = PadChar THEN 65
    ELSE IF \E idx \in 1..Len(BASE64_CHARSET) : BASE64_CHARSET[idx] = value
         THEN (CHOOSE idx \in 1..Len(BASE64_CHARSET) : BASE64_CHARSET[idx] = value) - 1
    ELSE -1

\* A second byte that takes only two bits of the third sextet.
second_byte_narrow(second_sextet, third_sextet) ==
    U8Or(U8Shl(BitAnd(second_sextet, 15), 4), U8Shr(BitAnd(third_sextet, 48), 2))

\* first_sextet << 2 | (second_sextet & 0b00110000) >> 4
first_byte(first_sextet, second_sextet) ==
    U8Or(U8Shl(first_sextet, 2), U8Shr(BitAnd(second_sextet, 48), 4))

\* (second_sextet & 0b00001111) << 4 | (third_sextet & 0b111100) >> 2
second_byte(second_sextet, third_sextet) ==
    U8Or(U8Shl(BitAnd(second_sextet, 15), 4), U8Shr(BitAnd(third_sextet, 60), 2))

\* (third_sextet & 0b11) << 6 | fourth_sextet
third_byte(third_sextet, fourth_sextet) ==
    U8Or(U8Shl(BitAnd(third_sextet, 3), 6), fourth_sextet)

\* Result<Vec<u8>, ParsingError>: Ok is [panic |-> FALSE, ok |-> TRUE, value],
\* Err is [panic |-> FALSE, ok |-> FALSE].
Ok(value) == [panic |-> FALSE, ok |-> TRUE, value |-> value]

Err == [panic |-> FALSE, ok |-> FALSE]

decode_quatret(encoded) ==
    LET chars == [i \in 1..4 |->
                    IF encoded[i] = PadChar THEN -1 ELSE decode_sextet(encoded[i])]
    IN  IF \E i \in 1..4 : encoded[i] # PadChar /\ chars[i] = -1
        THEN Panic("value is a base64 character")
        ELSE IF IsNone(chars[1]) /\ IsNone(chars[2]) THEN Err
        ELSE IF IsNone(chars[1]) \/ IsNone(chars[2])
             THEN Panic("called Option::unwrap() on a None value")
        ELSE IF IsNone(chars[3]) THEN Ok(<<first_byte(chars[1], chars[2])>>)
        ELSE IF IsNone(chars[4])
             THEN Ok(<<first_byte(chars[1], chars[2]), second_byte(chars[2], chars[3])>>)
        ELSE Ok(<<first_byte(chars[1], chars[2]), second_byte(chars[2], chars[3]),
                  third_byte(chars[3], chars[4])>>)

\* .chars().chunks(4).try_fold(Vec::new(), ..): the first Err (or panic)
\* ends it; a last chunk of fewer than four chars is no array of four, and
\* the unwrap of collect_array panics.
RECURSIVE try_fold(_, _)
try_fold(encoded, acc) ==
    IF encoded = <<>> THEN Ok(acc)
    ELSE IF Len(encoded) < 4
         THEN Panic("collect_array: called Option::unwrap() on a None value")
    ELSE LET decoded == decode_quatret(SubSeq(encoded, 1, 4))
         IN  IF decoded.panic \/ ~decoded.ok THEN decoded
             ELSE try_fold(SubSeq(encoded, 5, Len(encoded)), acc \o decoded.value)

\* encoded.len() is the length in bytes, the chunks are chunks of chars
decode(encoded) ==
    IF str_len(encoded) % 4 # 0 THEN Err ELSE try_fold(encoded, <<>>)

(***************************************************************************)
(* The base64 specification: a buffer is encoded and the text decoded, as  *)
(* the tests of the module do.                                             *)
(***************************************************************************)
B64Bytes == {0, 77, 171, 255}                   \* 0x00, 'M', 0xAB, 0xFF

InitBase64 ==
    /\ pc = "ready"
    /\ bytes \in SeqsUpTo(B64Bytes, MaxB64Len)
    /\ args = [op |-> "none"]
    /\ ret = [op |-> "none"]

EncodeBase64 ==
    /\ pc = "ready"
    /\ args' = [op |-> "encode"]
    /\ ret' = [encoded |-> encode(bytes)]
    /\ pc' = "encoded"
    /\ UNCHANGED bytes

DecodeBase64 ==
    /\ pc = "encoded"
    /\ args' = [op |-> "decode", encoded |-> ret.encoded]
    /\ ret' = [encoded |-> ret.encoded, decoded |-> decode(ret.encoded)]
    /\ pc' = "decoded"
    /\ UNCHANGED bytes

NextBase64 == EncodeBase64 \/ DecodeBase64

SpecBase64 == InitBase64 /\ [][NextBase64]_vars

\* C15: decoding the encoding of a byte sequence succeeds and gives the
\* sequence back, whatever its length modulo 3; the encoded text has a
\* length that is a multiple of four, and '=' only as its last characters
\* (none, two or one, for a length of 0, 1 or 2 modulo 3).
C15_Base64RoundTrip ==
    /\ pc = "decoded" => ret.decoded = [panic |-> FALSE, ok |-> TRUE, value |-> bytes]
    /\ pc \in {"encoded", "decoded"} =>
          /\ Len(ret.encoded) % 4 = 0
          /\ \A i \in 1..Len(ret.encoded) :
                ret.encoded[i] = 61 => \A j \in i..Len(ret.encoded) : ret.encoded[j] = 61
          /\ Cardinality({i \in 1..Len(ret.encoded) : ret.encoded[i] = 61})
                = (3 - (Len(bytes) % 3)) % 3

\* [0xAB, 0x4D, 0xFF, 0xAB]: a complete triplet and one byte more, encoded
\* with two padding characters and decoded again.
C15_Witness ==
    /\ pc = "decoded"
    /\ bytes = <<171, 77, 255, 171>>
    /\ Len(ret.encoded) = 8
    /\ SubSeq(ret.encoded, 5, 8) = <<113, 119, 61, 61>>
    /\ ret.decoded.ok

(***************************************************************************)
(* examples/set1_challenge6: main.  The program loads a baseline text and  *)
(* the base64 ciphertext from two files (lines 16-35), selects a key among *)
(* the ranked key sizes (lines 37-57), decrypts with it (lines 59-61) and  *)
(* compares key and plaintext with the expected answer (lines 62-74).  An  *)
(* unwrap() of None, an unwrap() or expect() of Err and a failed assert_eq *)
(* end the program with a panic.                                           *)
(***************************************************************************)
MaxOrLen == 4

\* distance::probable_key_sizes(&bytes, 3, 4, 40)
KeysToConsider == 3

ChunksToConsider == 4

MaxKeySizeTried == 40

\* "Terminator X: Bring the noise"
ExpectedKey ==
    <<84, 101, 114, 109, 105, 110, 97, 116, 111, 114, 32, 88, 58, 32, 66, 114,
      105, 110, 103, 32, 116, 104, 101, 32, 110, 111, 105, 115, 101>>

\* A file that File::open does not find, a file whose content
\* read_to_string rejects (not UTF-8), or a file with a text.
MissingFile == [state |-> "missing"]

UnreadableFile == [state |-> "unreadable"]

TextFile(content) == [state |-> "text", content |-> content]

\* str::replace(pattern, ""): every occurrence of the pattern, from the
\* left, is removed.
RECURSIVE remove_all(_, _)
remove_all(text, pattern) ==
    IF Len(text) < Len(pattern) THEN text
    ELSE IF SubSeq(text, 1, Len(pattern)) = pattern
         THEN remove_all(SubSeq(text, Len(pattern) + 1, Len(text)), pattern)
    ELSE <<Head(text)>> \o remove_all(Tail(text), pattern)

\* Lines 16-35: the baseline file, the character set and the expected
\* frequencies, the data file without its newlines, decoded.
load_inputs(baseline_file, data_file, character_set) ==
    IF baseline_file.state = "missing" THEN Panic("baseline data file exists")
    ELSE IF baseline_file.state = "unreadable" THEN Panic("can read baseline file")
    ELSE IF data_file.state = "missing" THEN Panic("challenge data file exists")
    ELSE IF data_file.state = "unreadable" THEN Panic("valid utf8 data")
    ELSE LET buffer == remove_all(data_file.content, <<10>>)
             decoded == decode(buffer)
         IN  IF decoded.panic THEN decoded
             ELSE IF ~decoded.ok THEN Panic("valid base64 string")
             ELSE [panic |-> FALSE,
                   bytes |-> decoded.value,
                   expected_frequencies |->
                       calculate_frequencies(character_set, baseline_file.content)]

\* break_single_byte_xor (frequency.rs 89-109) as line 47 calls it on one
\* column: main hands over the column's bytes, here as their hex text, and
\* takes (score, ch, _) from the result, ch being the character of the
\* candidate.  iter_order is the order in which character_set.iter() yields
\* the set in the run.  Every byte of a candidate becomes a character
\* (bytes_to_string), no candidate is dropped, and min_by keeps the first
\* of the lowest score; the result is None for an empty set only.
break_column(column, expected_frequency, character_set, iter_order) ==
    LET scored == [i \in 1..Len(iter_order) |->
                     LET plaintext == bytes_to_string(
                                          xor_with_char(hex_encode(column), iter_order[i]).value)
                     IN  [some |-> TRUE,
                          score |-> score_text(plaintext, expected_frequency,
                                               character_set, iter_order),
                          ch |-> iter_order[i],
                          plaintext |-> plaintext]]
    IN  IF iter_order = <<>> THEN [some |-> FALSE]
        ELSE MinBy(Head(scored), Tail(scored))

\* .fold((0.0, vec![]), |mut acc, (score, ch, _)| { acc.1.push(ch); (acc.0 + score, acc.1) })
RECURSIVE FoldColumns(_, _)
FoldColumns(broken, acc) ==
    IF broken = <<>> THEN acc
    ELSE FoldColumns(Tail(broken),
                     [sum |-> F32Add(acc.sum, Head(broken).score),
                      chars |-> Append(acc.chars, Head(broken).ch)])

\* The closure of lines 41-53 and the normalisation of line 55 for one key
\* size: every column is broken and unwrapped, the scores are summed and
\* the sum is divided by the number of characters.
key_candidate(buf, key, expected_frequency, character_set, iter_order) ==
    LET transposed == transpose_byte_chunks(buf, key, TRUE)
    IN  IF transposed.panic THEN transposed
        ELSE LET broken == [i \in 1..Len(transposed.blocks) |->
                              break_column(transposed.blocks[i], expected_frequency,
                                           character_set, iter_order)]
             IN  IF \E i \in 1..Len(broken) : ~broken[i].some
                 THEN Panic("break_single_byte_xor: called Option::unwrap() on a None value")
                 ELSE LET acc == FoldColumns(broken, [sum |-> F32Zero, chars |-> <<>>])
                      IN  [panic |-> FALSE,
                           score |-> F32Div(acc.sum, F32FromInt(Len(acc.chars)), FALSE),
                           chars |-> acc.chars]

\* One step of Iterator::max_by: the later element y wins unless the
\* earlier element x compares Greater.
max_by_step(x, y) == IF total_cmp(x.score, y.score) = 1 THEN x ELSE y

RECURSIVE max_by(_, _)
max_by(best, rest) ==
    IF rest = <<>> THEN best ELSE max_by(max_by_step(best, Head(rest)), Tail(rest))

\* Lines 39-57 over the key sizes in the order probable_key_sizes ranks
\* them, with the character set iterated in iter_order: the candidates are
\* computed one after the other, the first panic ends the program, and
\* max_by(..).unwrap() panics when there is no candidate.
select_key(buf, sizes, expected_frequency, character_set, iter_order) ==
    LET results == [i \in 1..Len(sizes) |->
                      key_candidate(buf, sizes[i], expected_frequency,
                                    character_set, iter_order)]
    IN  IF \E i \in 1..Len(results) : results[i].panic
        THEN Panic("break_single_byte_xor: called Option::unwrap() on a None value")
        ELSE IF results = <<>>
             THEN Panic("max_by: called Option::unwrap() on a None value")
        ELSE max_by(Head(results), Tail(results))

\* Lines 59-61: the key is the string of the selected characters, the
\* answer the buffer XORed with the bytes of that string, read as UTF-8.
decrypt_with(buf, result) ==
    LET key == from_iter(result.chars)
        answer_bytes == repeating_key_xor(buf, key)
    IN  IF ~IsValidUtf8(answer_bytes)
        THEN Panic("from_utf8: called Result::unwrap() on an Err value")
        ELSE [panic |-> FALSE,
              score |-> result.score,
              chars |-> result.chars,
              key |-> key,
              plaintext |-> answer_bytes]

\* Lines 62-74: the answer file is read, the key must be the expected one
\* and the plaintext, without its newlines (and the blank before one), the
\* answer without its newlines.  Texts are compared as their UTF-8 bytes.
check_answer(result, answer_file) ==
    IF answer_file.state # "text"
    THEN Panic("answer file: called Result::unwrap() on an Err value")
    ELSE IF result.key # from_iter(ExpectedKey)
         THEN Panic("assertion left == right failed: key")
    ELSE IF remove_all(from_iter(answer_file.content), <<10>>)
                # remove_all(remove_all(result.plaintext, <<32, 10>>), <<10>>)
         THEN Panic("assertion left == right failed: plaintext")
    ELSE result

(***************************************************************************)
(* The recovery specification: one run of main.  bytes is the ciphertext   *)
(* the data file holds; the file is its base64 text in lines of four       *)
(* characters, or that text cut short, or no readable file at all.         *)
(*                                                                         *)
(* character_set is a std HashSet: iter() yields its 62 characters in an   *)
(* order that the hasher's random keys fix for the run and that differs    *)
(* from run to run; every permutation is an order of some run.  Every      *)
(* operator that iterates the set takes that order as iter_order.  The     *)
(* state keeps no order: lines 16-35 iterate nothing, and lines 37-57      *)
(* leave only their result.                                                *)
(*                                                                         *)
(* The ciphertexts followed have 0, 1, 2 or 4 bytes and the baseline has   *)
(* four characters.  Their columns have 2 or 4 bytes, so every frequency   *)
(* is a multiple of 1/4 and every term and every sum of score_text is a    *)
(* multiple of 1/4 below 4: all f32 additions are exact, and score_text    *)
(* gives the same value in whatever order it adds.  What the order of a    *)
(* run decides is then only which of several characters of equal score     *)
(* min_by meets first.  (A column of 3 bytes has frequencies of thirds,    *)
(* whose sums differ in the last bit from one order to another; runs on    *)
(* such ciphertexts are not followed.)                                     *)
(***************************************************************************)
OrBytes == {0, 3}

\* The lengths of the ciphertexts
OrLengths == {0, 1, 2, 4}

\* A ciphertext with a byte that no key character turns into ASCII
OrHighBytes == {<<0, 128>>}

\* "aab "
RecoverBaselines == {<<97, 97, 98, 32>>}

\* ('a'..='z').chain('A'..='Z').chain('0'..='9').collect()
default_charset == (97..122) \cup (65..90) \cup (48..57)

\* The characters in the order default_charset chains them
ChainOrder ==
    [i \in 1..62 |-> IF i <= 26 THEN 96 + i ELSE IF i <= 52 THEN 38 + i ELSE i - 5]

\* The characters whose candidate has the lowest score_text of a column:
\* the candidates min_by chooses among, the first in the order.
BestChars(column, expected_frequency, character_set) ==
    LET candidate(ch) == bytes_to_string(xor_with_char(hex_encode(column), ch).value)
        lowest == break_column(column, expected_frequency, character_set, ChainOrder).score
    IN  {ch \in character_set :
            partial_cmp_or_equal(score_text(candidate(ch), expected_frequency,
                                            character_set, ChainOrder),
                                 lowest) = 0}

\* The characters that have the lowest score of some column of some size.
TieChars(buf, sizes, expected_frequency, character_set) ==
    UNION {LET transposed == transpose_byte_chunks(buf, sizes[k], TRUE)
           IN  IF transposed.panic THEN {}
               ELSE UNION {BestChars(transposed.blocks[i], expected_frequency,
                                     character_set) :
                              i \in 1..Len(transposed.blocks)} :
              k \in 1..Len(sizes)}

\* The order that yields the characters of front first and then the others
\* as ChainOrder has them.
FrontOrder(front) ==
    front \o SelectSeq(ChainOrder, LAMBDA ch : \A j \in 1..Len(front) : front[j] # ch)

\* The largest of the key sizes (0 without one)
RECURSIVE LargestSize(_)
LargestSize(sizes) ==
    IF sizes = <<>> THEN 0 ELSE Max(Head(sizes), LargestSize(Tail(sizes)))

\* One iteration order of the character set for every way in which the
\* order of a run can arrange the characters that decide its ties: the
\* characters of front are the characters of TieChars the run meets first,
\* in the order it meets them, and the other characters follow as in
\* ChainOrder.  The order of a run is any of the 62! permutations; it and
\* the representative that arranges the returned characters as it does
\* give the same values throughout lines 37-57.  The scores are the same
\* in every order (see above).  min_by returns, of the characters of the
\* lowest score of a column, the one the order has first.  For the order p
\* of a run and the characters its run returns for the columns of a size,
\* take the representative with these characters in front, as p orders
\* them: a character ahead of the returned one of a column is the one
\* returned for another column, so it is ahead in p too and is not of the
\* lowest score of this column.  A size has at most LargestSize columns.
RepresentativeOrders(buf, sizes, expected_frequency, character_set) ==
    {FrontOrder(front) :
        front \in {f \in SeqsUpTo(TieChars(buf, sizes, expected_frequency, character_set),
                                  LargestSize(sizes)) :
                      \A i, j \in 1..Len(f) : i # j => f[i] # f[j]}}

\* A text in lines of four characters, each ended by a newline
RECURSIVE InLines(_)
InLines(text) ==
    IF Len(text) <= 4 THEN text \o <<10>>
    ELSE SubSeq(text, 1, 4) \o <<10>> \o InLines(SubSeq(text, 5, Len(text)))

\* The data files of a ciphertext
DataFiles(buf) ==
    {MissingFile, UnreadableFile,
     TextFile(InLines(encode(buf))),
     TextFile(SubSeq(encode(buf), 1, Len(encode(buf)) - 1)),
     TextFile(<<233, 233>>)}

BaselineFiles == {MissingFile, UnreadableFile} \cup {TextFile(t) : t \in RecoverBaselines}

AnswerFiles == {MissingFile, TextFile(<<>>), TextFile(<<97, 98, 10>>)}

InitRecover ==
    /\ pc = "ready"
    /\ bytes \in {b \in SeqsUpTo(OrBytes, MaxOrLen) : Len(b) \in OrLengths} \cup OrHighBytes
    /\ args = [op |-> "none"]
    /\ ret = [op |-> "none"]

\* Lines 16-35
LoadInputs ==
    /\ pc = "ready"
    /\ \E baseline_file \in BaselineFiles, data_file \in DataFiles(bytes) :
          LET character_set == default_charset
              loaded == load_inputs(baseline_file, data_file, character_set)
          IN  /\ args' = IF loaded.panic
                         THEN [op |-> "main", loaded |-> FALSE,
                               baseline_file |-> baseline_file, data_file |-> data_file]
                         ELSE [op |-> "main", loaded |-> TRUE,
                               baseline |-> baseline_file.content,
                               character_set |-> character_set,
                               expected_frequency |-> loaded.expected_frequencies,
                               bytes |-> loaded.bytes]
              /\ ret' = IF loaded.panic THEN loaded ELSE [panic |-> FALSE]
              /\ pc' = IF loaded.panic THEN "panicked" ELSE "loaded"
    /\ UNCHANGED bytes

\* The key sizes main tries, in the order probable_key_sizes ranks them.
KeySizesTried ==
    probable_key_sizes(args.bytes, KeysToConsider, ChunksToConsider, MaxKeySizeTried, FALSE)

\* Lines 37-57, in the iteration order of the run's HashSet (through its
\* representative)
SelectKey ==
    /\ pc = "loaded"
    /\ \E iter_order \in RepresentativeOrders(args.bytes, KeySizesTried, args.expected_frequency,
                                    args.character_set) :
          ret' = select_key(args.bytes, KeySizesTried, args.expected_frequency,
                            args.character_set, iter_order)
    /\ pc' = IF ret'.panic THEN "panicked" ELSE "selected"
    /\ UNCHANGED <<bytes, args>>

\* Lines 59-61
DecryptAnswer ==
    /\ pc = "selected"
    /\ ret' = decrypt_with(args.bytes, ret)
    /\ pc' = IF ret'.panic THEN "panicked" ELSE "decrypted"
    /\ UNCHANGED <<bytes, args>>

\* Lines 62-74
CheckAnswer ==
    /\ pc = "decrypted"
    /\ \E answer_file \in AnswerFiles : ret' = check_answer(ret, answer_file)
    /\ pc' = IF ret'.panic THEN "panicked" ELSE "done"
    /\ UNCHANGED <<bytes, args>>

NextRecover == LoadInputs \/ SelectKey \/ DecryptAnswer \/ CheckAnswer

SpecRecover == InitRecover /\ [][NextRecover]_vars

\* The selection of lines 37-57 has run (and ended, with a key or a panic).
AfterSelect == args.op = "main" /\ args.loaded /\ pc # "loaded"

\* The representative orders of the run's inputs
OrdersOfInputs ==
    RepresentativeOrders(args.bytes, KeySizesTried, args.expected_frequency,
                         args.character_set)

\* Lines 37-57 of the run's inputs under an iteration order
SelectionUnder(iter_order) ==
    select_key(args.bytes, KeySizesTried, args.expected_frequency, args.character_set,
               iter_order)

\* The candidate of one key size.
CandidateOfSize(key, iter_order) ==
    key_candidate(args.bytes, key, args.expected_frequency, args.character_set, iter_order)

\* The breaker's result on column i (1-based) of the transposition by key.
BrokenColumn(key, i, iter_order) ==
    break_column(transpose_byte_chunks(args.bytes, key, TRUE).blocks[i],
                 args.expected_frequency, args.character_set, iter_order)

\* The score of the candidate text of key character ch for that column.
ColumnScore(key, i, ch, iter_order) ==
    score_text(bytes_to_string(
                   xor_with_char(hex_encode(transpose_byte_chunks(args.bytes, key, TRUE).blocks[i]),
                                 ch).value),
               args.expected_frequency, args.character_set, iter_order)

\* C11: one scoring convention throughout: score_text ranks a lower score
\* better, the breaker returns for every column a character no other
\* character scores lower than, and the key selected among the candidate
\* key lengths is one no other candidate has a lower normalized aggregate
\* score than; under every iteration order that gives the run's selection.
C11_OneScoringConvention ==
    pc = "selected" =>
        \A iter_order \in OrdersOfInputs :
            SelectionUnder(iter_order) = ret =>
                /\ \A i \in 1..Len(ret.chars) :
                      LET broken == BrokenColumn(Len(ret.chars), i, iter_order)
                      IN  \A ch \in args.character_set :
                              ~F32Less(ColumnScore(Len(ret.chars), i, ch, iter_order),
                                       broken.score)
                /\ \A k \in 1..Len(KeySizesTried) :
                      ~F32Less(CandidateOfSize(KeySizesTried[k], iter_order).score,
                               ret.score)

\* C13: an empty ciphertext, an empty character set and a key-size range
\* with no valid candidate each end the recovery without a result and
\* without a panic.  (The character set of a run is default_charset(); the
\* other two cases are runs of main.)
C13_DegenerateInputsGiveNoResult ==
    (AfterSelect
       /\ (args.bytes = <<>> \/ args.character_set = {} \/ KeySizesTried = <<>>)) =>
        /\ ~ret.panic
        /\ "chars" \notin DOMAIN ret

\* C18: for the same ciphertext, table and character set the recovery
\* selects the same key length and key (and with them the same plaintext):
\* the selection of a run is the selection of every run on these inputs.
\* main processes the key lengths and the columns in one order, the ranked
\* one; its runs differ in the order the character set is iterated in.
C18_SelectionIndependentOfOrder ==
    pc = "selected" =>
        \A iter_order \in OrdersOfInputs : SelectionUnder(iter_order) = ret

(***************************************************************************)
(* The frequency specification: one call of calculate_frequencies on a     *)
(* text (bytes holds its characters) with a character set.                 *)
(***************************************************************************)
MaxFreqLen == 3

FreqTextChars == {97, 98, 99, 32}               \* 'a', 'b', 'c', ' '

FreqSetChars == {97, 98, 99, 122}               \* 'a', 'b', 'c', 'z'

\* Every short text, and "abccccz" for a seventh as the total
FreqTexts == SeqsUpTo(FreqTextChars, MaxFreqLen) \cup {<<97, 98, 99, 99, 99, 99, 122>>}

InitFreq ==
    /\ pc = "ready"
    /\ bytes \in FreqTexts
    /\ args = [op |-> "none"]
    /\ ret = [op |-> "none"]

Frequencies ==
    /\ pc = "ready"
    /\ \E character_set \in SUBSET FreqSetChars :
        /\ args' = [op |-> "calculate_frequencies", character_set |-> character_set]
        /\ ret' = [map |-> calculate_frequencies(character_set, bytes)]
    /\ pc' = "counted"
    /\ UNCHANGED bytes

NextFreq == Frequencies

SpecFreq == InitFreq /\ [][NextFreq]_vars

\* The f32 value v is the nearest one to the fraction n / d (0 < n <= d):
\* a normal mantissa, and v within half a unit of its last place of n / d.
NearestTo(v, n, d) ==
    /\ ~v.nan /\ ~v.neg
    /\ v.m >= MantLo /\ v.m < MantHi
    /\ v.e < 0
    /\ 2 * Abs(v.m * d - n * Pow2(-v.e)) <= d

\* 0 < v <= 1
InUnitInterval(v) ==
    /\ ~v.nan /\ ~v.neg /\ v.m > 0
    /\ (v.e < -23 \/ (v.e = -23 /\ v.m = MantLo))

\* The exact sum of the values of a frequency table, as a multiple of
\* 2^-scale.
RECURSIVE ScaledSum(_, _, _)
ScaledSum(map, keys, scale) ==
    IF keys = {} THEN 0
    ELSE LET ch == CHOOSE c \in keys : TRUE
         IN  map[ch].m * Pow2(map[ch].e + scale) + ScaledSum(map, keys \ {ch}, scale)

\* The occurrences of the keys of the table, added up.
RECURSIVE KeyOccurrences(_)
KeyOccurrences(keys) ==
    IF keys = {} THEN 0
    ELSE LET ch == CHOOSE c \in keys : TRUE
         IN  Cardinality({i \in 1..Len(bytes) : bytes[i] = ch}) + KeyOccurrences(keys \ {ch})

\* The table has the keys the claim gives it: the characters of the text
\* that are in the set, none for an empty text.
KeysAsClaimed ==
    DOMAIN ret.map = {ch \in args.character_set : \E i \in 1..Len(bytes) : bytes[i] = ch}

\* C14, as amended: calculate_frequencies returns an empty table for an
\* empty text; for a non-empty text its keys are exactly the characters of
\* the text that are in the set, each mapped to the f32 nearest to its
\* occurrences divided by the number of all characters of the text
\* (filtered or not), a value in (0, 1]; the fractions before rounding sum
\* to at most 1 (the occurrences of the keys sum to at most the total).
C14_FrequenciesAreSharesOfTotal ==
    pc = "counted" =>
        /\ bytes = <<>> => ret.map = <<>>
        /\ KeysAsClaimed
        /\ \A ch \in DOMAIN ret.map :
              /\ NearestTo(ret.map[ch],
                           Cardinality({i \in 1..Len(bytes) : bytes[i] = ch}), Len(bytes))
              /\ InUnitInterval(ret.map[ch])
        /\ KeyOccurrences(DOMAIN ret.map) <= Len(bytes)

\* "ab " over {'a', 'z'}: 'a' is a key with a third, 'b' and ' ' are outside
\* the set and 'z' is not in the text.
C14_Witness ==
    /\ pc = "counted"
    /\ bytes = <<97, 98, 32>>
    /\ args.character_set = {97, 122}
    /\ DOMAIN ret.map = {97}
    /\ ret.map[97] = [nan |-> FALSE, neg |-> FALSE, m |-> 11184811, e |-> -25]

\* C14, as stated: as above, and the values of the table sum to at most 1.
C14_FrequenciesSumAtMostOne ==
    pc = "counted" =>
        /\ bytes = <<>> => ret.map = <<>>
        /\ KeysAsClaimed
        /\ \A ch \in DOMAIN ret.map : InUnitInterval(ret.map[ch])
        /\ ScaledSum(ret.map, DOMAIN ret.map, 27) <= Pow2(27)

\* C16: probable_key_sizes never divides by a zero count of chunk pairs:
\* for every length k that passes the guard 2k <= len(bytes), and every
\* chunks_to_consider (0 and 1 included), at least one adjacent pair of
\* chunks is averaged and the ranked average is a number, not NaN.
C16_AverageOverAtLeastOnePair ==
    pc = "ranked" =>
        \A k \in Admissible :
            /\ Len(norm_distances(bytes, k, args.chunks_to_consider, FALSE)) >= 1
            /\ \A neg \in BOOLEAN : ~RankedAverage(k, neg).nan

\* The position in the iteration order of the candidate returned: the first
\* one whose text is the returned plaintext.
ReturnedAt ==
    CHOOSE i \in 1..Len(args.iter_order) :
        /\ Candidate(args.iter_order[i]) = ret.plaintext
        /\ \A j \in 1..(i - 1) : Candidate(args.iter_order[j]) # ret.plaintext

\* C17: break_single_byte_xor is deterministic, exact ties included: the
\* same ciphertext, expected frequencies and character set give the same
\* result on every run, whatever order the run iterates the set in, and the
\* result is the first-encountered best candidate of the iteration.
C17_BreakDeterministicOnTies ==
    (pc = "broken" /\ ret.some) =>
        /\ \A j \in 1..(ReturnedAt - 1) :
              F32Less(ret.score,
                      score_text(Candidate(args.iter_order[j]), args.expected_frequency,
                                 args.character_set, args.iter_order))
        /\ \A order \in IterOrders(args.character_set) :
              break_single_byte_xor(args.hex_ciphertext, args.expected_frequency,
                                    args.character_set, order) = ret

(***************************************************************************)
(* The column specification: a buffer is encrypted with a repeating key    *)
(* (a &str, XORed byte by byte as key.as_bytes()), and the ciphertext and  *)
(* the buffer are both transposed with the key's byte length as the block  *)
(* size, as main transposes the ciphertext by a candidate key size.        *)
(***************************************************************************)
MaxColKeyChars == 2

ColKeyChars == {73, 67, 233}                    \* 'I', 'C', U+00E9

\* Characters of default_charset(), the set main recovers key characters from
ColumnChars == {73, 67}

ColKeys == {from_iter(chars) : chars \in SeqsUpTo(ColKeyChars, MaxColKeyChars) \ {<<>>}}

InitColumns ==
    /\ pc = "ready"
    /\ bytes \in SeqsUpTo(XorBytes, MaxLen)
    /\ args = [op |-> "none"]
    /\ ret = [op |-> "none"]

EncryptBuffer ==
    /\ pc = "ready"
    /\ \E key \in ColKeys :
        /\ args' = [op |-> "repeating_key_xor", key |-> key]
        /\ ret' = [cipher |-> repeating_key_xor(bytes, key)]
    /\ pc' = "encrypted"
    /\ UNCHANGED bytes

SplitColumns ==
    /\ pc = "encrypted"
    /\ args' = [op |-> "transpose_byte_chunks", key |-> args.key,
                block_size |-> Len(args.key)]
    /\ ret' = [cipher |-> ret.cipher,
               cipher_columns |-> transpose_byte_chunks(ret.cipher, Len(args.key), TRUE),
               plain_columns |-> transpose_byte_chunks(bytes, Len(args.key), TRUE)]
    /\ pc' = "split"
    /\ UNCHANGED bytes

NextColumns == EncryptBuffer \/ SplitColumns

SpecColumns == InitColumns /\ [][NextColumns]_vars

\* Column c is column p with every byte XORed with the byte b, bit by bit.
ColumnXoredWith(c, p, b) ==
    /\ Len(c) = Len(p)
    /\ \A j \in 1..Len(p) : \A n \in 0..7 :
          BitOf(c[j], n) = IF BitOf(p[j], n) # BitOf(b, n) THEN 1 ELSE 0

\* C19: with the block size the byte length k of the key, column i of the
\* transposed ciphertext is column i of the transposed buffer with every
\* byte XORed with the i-th key byte, for every i; hence a key assembled, in
\* column order, from one character per column that turns the ciphertext
\* column into the buffer's column decrypts the whole ciphertext.
C19_ColumnsAreSingleByteXors ==
    pc = "split" =>
        /\ ~ret.cipher_columns.panic /\ ~ret.plain_columns.panic
        /\ Len(ret.cipher_columns.blocks) = Len(args.key)
        /\ Len(ret.plain_columns.blocks) = Len(args.key)
        /\ \A i \in 1..Len(args.key) :
              ColumnXoredWith(ret.cipher_columns.blocks[i],
                              ret.plain_columns.blocks[i], args.key[i])
        /\ \A chars \in [1..Len(args.key) -> ColumnChars] :
              (\A i \in 1..Len(args.key) :
                  ColumnXoredWith(ret.plain_columns.blocks[i],
                                  ret.cipher_columns.blocks[i], chars[i] % 256))
              => repeating_key_xor(ret.cipher, from_iter(chars)) = bytes

\* Four bytes under the key "IC": two columns of two bytes, each the
\* buffer's column XORed with its own key byte, which differ.
C19_Witness ==
    /\ pc = "split"
    /\ bytes = <<99, 255, 0, 99>>
    /\ args.key = <<73, 67>>
    /\ ret.cipher_columns.blocks = <<<<42, 73>>, <<188, 32>>>>
    /\ ret.plain_columns.blocks = <<<<99, 0>>, <<255, 99>>>>
    /\ repeating_key_xor(ret.cipher, from_iter(<<73, 67>>)) = bytes

====
